---- MODULE Spec2Model ----
(***************************************************************************)
(* ftail: the dispatcher (Ftail, src/src/lib.rs), the daily-file sink      *)
(* (DailyFileLogger, src/src/channels/daily_file.rs) and the single-file   *)
(* logger (SingleLogger, src/src/drivers/single.rs) as a state machine.    *)
(*                                                                         *)
(* Threads call Ftail::log and Ftail::flush concurrently.  One log call on *)
(* the daily sink is a sequence of steps, each atomic with respect to the  *)
(* two mutexes of the sink (file, current_date):                           *)
(*   size -> clock -> lockdate -> [open -> swap] -> prune -> [scan]*       *)
(*        -> lockfile -> writeln -> newline                                *)
(* The file system is a directory (name -> inode) plus inodes (mtime and   *)
(* the data written); a handle is an inode, so a file that is renamed or   *)
(* unlinked while open keeps receiving the writes made through its handle. *)
(* Time is a tick counter; a calendar day is TicksPerDay ticks.            *)
(*                                                                         *)
(* The registry part is the builder (add_channel), Ftail::init, which      *)
(* constructs the sinks and installs the logger, and the dispatcher's      *)
(* loops over the constructed sinks.                                       *)
(***************************************************************************)
EXTENDS Integers, Sequences, FiniteSets, TLC

\* ------------------------------------------------------------------ bounds
NumThreads == 2
MaxCalls == 2
MaxTicks == 2
MaxFaults == 1
MaxChannels == 2
MaxOldLines == 2
MaxIdleDays == 3
TicksPerDay == 2
StartDay == 9

Threads == 1..NumThreads
StartTick == StartDay * TicksPerDay
Days == 0..(StartDay + MaxTicks + MaxIdleDays + 1)

\* ------------------------------------------------------------ option type
None == <<>>
Some(x) == <<x>>
IsSome(o) == Len(o) = 1
Unwrap(o) == o[1]

\* ------------------------------------------------- log::Level, LevelFilter
Off == 0
Error == 1
Warn == 2
Info == 3
Debug == 4
Trace == 5
Levels == Error..Trace
LevelFilters == Off..Trace

\* ------------------------------------------------------------ target text
\* A target is the sequence of its characters.
TFooBar == <<"f", "o", "o", ":", ":", "b", "a", "r">>
TFoo == <<"f", "o", "o">>
TFo == <<"f", "o">>
TBaz == <<"b", "a", "z">>
TEmpty == <<>>

\* str::starts_with
StartsWith(s, p) == Len(p) <= Len(s) /\ SubSeq(s, 1, Len(p)) = p

\* ------------------------------------------------------------- file names
\* A directory entry: its stem (a calendar date, or another stem) and its
\* extension.  format!("{}/{}.log", dir, today) names the file of a date.
DatePath(d) == [kind |-> "date", id |-> d, ext |-> "log"]
NotesLog == [kind |-> "other", id |-> 0, ext |-> "log"]
ReadmeTxt == [kind |-> "other", id |-> 1, ext |-> "txt"]
DemoLog == [kind |-> "other", id |-> 2, ext |-> "log"]
Names == {DatePath(d) : d \in Days} \cup {NotesLog, ReadmeTxt, DemoLog}

\* chrono::Local::now().format("%Y-%m-%d"): the calendar date of a tick
DateOf(tick) == tick \div TicksPerDay

\* Duration::num_days: whole days, rounded towards zero
NumDays(ticks) == ticks \div TicksPerDay

VARIABLES
  config,        \* Config of the dispatcher and, with level_filter set, of the sink
  now,           \* the wall clock, in ticks
  ticks,         \* ticks taken so far
  faults,        \* I/O failures the environment may still inject
  dir,           \* the sink's directory: name -> inode (0: no such file)
  inodes,        \* inode -> [mtime, data]
  olds,          \* <file_path>.old1, .old2, ...: their inodes
  file,          \* DailyFileLogger.file: the inode the LineWriter writes to
  file_path,     \* DailyFileLogger.file_path
  current_date,  \* DailyFileLogger.current_date
  fileLock,      \* owner of the file mutex (0: free)
  dateLock,      \* owner of the current_date mutex (0: free)
  filePoison,    \* the file mutex is poisoned
  datePoison,    \* the current_date mutex is poisoned
  pc,            \* thread -> its position
  todo,          \* thread -> calls it will still make
  hist,          \* thread -> the calls it made, in order
  today,         \* thread -> the date it read in rotate_daily_file
  newFile,       \* thread -> the inode it opened in rotate_daily_file
  scan,          \* thread -> directory entries its pruning has still to visit
  acq,           \* thread -> how many times it acquired the file mutex
  removed,       \* history: the files pruning removed
  kept,          \* history: the .log files pruning examined and kept
  past,          \* history: the dates the sink has switched away from
  died,          \* history: thread -> where and of what it panicked
  channels,      \* Ftail.channels: the registered LogChannels, not yet built
  taken,         \* init's local channels (line 358): what mem::take returned
  initialized_channels,  \* Ftail.initialized_channels: the constructed sinks
  logger,        \* the logger installed in the log facade
  ipc,           \* the position of the thread that builds and calls init
  result,        \* what init returned
  news,          \* history: the constructor calls, in order
  perm,          \* the environment: is the target read-only, is the process privileged
  at,            \* thread -> the channel its dispatch loop is at (0: not in a loop)
  delivered,     \* history: the sink calls the dispatcher made, in order
  sinks,         \* the state of each constructed sink seen from the dispatcher
  single         \* SingleLogger: its file, its open mode, its write position

vars == <<config, now, ticks, faults, dir, inodes, olds, file, file_path,
          current_date, fileLock, dateLock, filePoison, datePoison, pc, todo,
          hist, today, newFile, scan, acq, removed, kept, past, died,
          channels, taken, initialized_channels, logger, ipc, result, news,
          perm, at, delivered, sinks, single>>

regVars == <<channels, taken, initialized_channels, logger, ipc, result, news, perm>>
dispVars == <<at, delivered, sinks>>
\* What a step of the daily sink never changes: the configuration, the path
\* it was built with, the registry, and the state of the other sinks.
cfgVars == <<config, file_path, regVars, dispVars, single>>
clockVars == <<now, ticks>>
fsVars == <<dir, inodes, olds>>
lockVars == <<fileLock, dateLock, filePoison, datePoison>>
histVars == <<removed, kept, past>>

\* ---------------------------------------------------------------- helpers
\* No SingleLogger has been constructed.
NoSingle == [file |-> 0, append |-> TRUE, pos |-> 0, had |-> 0, poisoned |-> FALSE]

\* The outcomes of one I/O step: it succeeds, or (while the environment has
\* failures left) it fails.
Outcomes == IF faults > 0 THEN {TRUE, FALSE} ELSE {TRUE}
Spend(ok) == IF ok THEN faults ELSE faults - 1

\* The number of the call a thread is in.
CallNo(t) == Len(hist[t])

TextTok(t) == [thr |-> t, call |-> CallNo(t), part |-> "text"]
NlTok(t) == [thr |-> t, call |-> CallNo(t), part |-> "nl"]

\* OpenOptions::new().create(true).append(true).open(path): the inode of the
\* path, created empty when there is none.  Opening changes no mtime.
OpenInode(d, ins, n) == IF d[n] # 0 THEN d[n] ELSE Len(ins) + 1
OpenDir(d, ins, n) == IF d[n] # 0 THEN d ELSE [d EXCEPT ![n] = Len(ins) + 1]
OpenInodes(d, ins, n, tick) ==
  IF d[n] # 0 THEN ins ELSE Append(ins, [mtime |-> tick, data |-> <<>>])

\* A write through a handle appends to the inode and sets its mtime.
WriteTo(ins, i, tok, tick) ==
  [ins EXCEPT ![i] = [mtime |-> tick, data |-> Append(@.data, tok)]]

\* The size of a file: the number of lines begun in it.
SizeOf(i) == Cardinality({k \in 1..Len(inodes[i].data) : inodes[i].data[k].part = "text"})

\* A panic (an unwrap of an Err) unwinds the thread: every mutex guard it holds
\* is dropped, which poisons and unlocks the mutex.  inFile says that the panic
\* happens inside a step that took the file mutex itself.
Panic(t, inFile, cause) ==
  /\ pc' = [pc EXCEPT ![t] = "panicked"]
  /\ died' = [died EXCEPT ![t] = [at |-> pc[t], of |-> cause]]
  /\ fileLock' = IF fileLock = t THEN 0 ELSE fileLock
  /\ dateLock' = IF dateLock = t THEN 0 ELSE dateLock
  /\ filePoison' = (filePoison \/ fileLock = t \/ inFile)
  /\ datePoison' = (datePoison \/ dateLock = t)

Goto(t, l) == pc' = [pc EXCEPT ![t] = l] /\ UNCHANGED died

\* ------------------------------------------------------------- dispatcher
\* Ftail_enabled with a defect: the target must equal a listed target.
Ftail_enabled_exact(e) ==
  /\ ~(IsSome(config.levels) /\ e.level \notin Unwrap(config.levels))
  /\ ~(IsSome(config.targets)
        /\ ~(\E p \in Unwrap(config.targets) : e.target = p))

\* Ftail::enabled: the global level and target allow-lists.
Ftail_enabled(e) ==
  /\ ~(IsSome(config.levels) /\ e.level \notin Unwrap(config.levels))
  /\ ~(IsSome(config.targets)
        /\ ~(\E p \in Unwrap(config.targets) : StartsWith(e.target, p)))

\* Daily_enabled with a defect: the comparison is strict.
Daily_enabled_strict(e) ==
  IF config.level_filter = Off THEN TRUE ELSE e.level < config.level_filter

\* DailyFileLogger::enabled
Daily_enabled(e) ==
  IF config.level_filter = Off THEN TRUE ELSE e.level <= config.level_filter

\* Ftail::log that hands every event to the sink's write path.
Ftail_log_unfiltered(t, e) ==
  /\ pc[t] = "idle"
  /\ todo[t] > 0
  /\ todo' = [todo EXCEPT ![t] = @ - 1]
  /\ hist' = [hist EXCEPT ![t] = Append(@, [op |-> "log", level |-> e.level, target |-> e.target])]
  /\ pc' = [pc EXCEPT ![t] = "size"]
  /\ UNCHANGED <<cfgVars, clockVars, faults, fsVars, file, current_date,
                 lockVars, today, newFile, scan, acq, histVars, died>>

\* Ftail::log, up to the daily sink's own level check: a rejected event
\* returns at once, an accepted one enters the sink's write path.
Ftail_log(t, e) ==
  /\ pc[t] = "idle"
  /\ todo[t] > 0
  /\ todo' = [todo EXCEPT ![t] = @ - 1]
  /\ hist' = [hist EXCEPT ![t] = Append(@, [op |-> "log", level |-> e.level, target |-> e.target])]
  /\ pc' = [pc EXCEPT ![t] =
              IF Ftail_enabled(e) /\ Daily_enabled(e) THEN "size" ELSE "idle"]
  /\ UNCHANGED <<cfgVars, clockVars, faults, fsVars, file, current_date,
                 lockVars, today, newFile, scan, acq, histVars, died>>

\* ------------------------------------------------------------- daily sink
\* helpers::rotate_if_exceeds_max_file_size(&self.file, self.file_path, &config)
\* (log, line 90).  The helper is handed the mutex, so it locks and unlocks the
\* file on its own.  When a size is configured and the open file has reached
\* it, the file at file_path becomes .old1 (the older ones move up) and a
\* fresh file at file_path is opened and becomes the sink's file.
rotate_if_exceeds_max_file_size(t) ==
  /\ pc[t] = "size"
  /\ IF ~IsSome(config.max_file_size)
     THEN /\ Goto(t, "clock")
          /\ UNCHANGED <<faults, fsVars, file, lockVars, acq>>
     ELSE /\ fileLock = 0
          /\ IF filePoison
             THEN /\ Panic(t, FALSE, "poison")
                  /\ UNCHANGED <<faults, fsVars, file, acq>>
             ELSE /\ acq' = [acq EXCEPT ![t] = @ + 1]
                  /\ IF SizeOf(file) < Unwrap(config.max_file_size)
                     THEN /\ Goto(t, "clock")
                          /\ UNCHANGED <<faults, fsVars, file, lockVars>>
                     ELSE \E ok \in Outcomes :
                            /\ faults' = Spend(ok)
                            /\ IF ~ok \/ dir[file_path] = 0
                               THEN /\ Panic(t, TRUE, "io")
                                    /\ UNCHANGED <<fsVars, file>>
                               ELSE /\ olds' = <<dir[file_path]>> \o olds
                                    /\ inodes' = Append(inodes, [mtime |-> now, data |-> <<>>])
                                    /\ dir' = [dir EXCEPT ![file_path] = Len(inodes) + 1]
                                    /\ file' = Len(inodes) + 1
                                    /\ Goto(t, "clock")
                                    /\ UNCHANGED lockVars
  /\ UNCHANGED <<cfgVars, clockVars, current_date, todo, hist, today, newFile,
                 scan, histVars>>

\* rotate_daily_file, line 52: the clock is read before any lock is taken.
ReadClock(t) ==
  /\ pc[t] = "clock"
  /\ today' = [today EXCEPT ![t] = DateOf(now)]
  /\ Goto(t, "lockdate")
  /\ UNCHANGED <<cfgVars, clockVars, faults, fsVars, file, current_date,
                 lockVars, todo, hist, newFile, scan, acq, histVars>>

\* rotate_daily_file, lines 53-55: lock current_date and compare.
LockDate(t) ==
  /\ pc[t] = "lockdate"
  /\ dateLock = 0
  /\ IF datePoison
     THEN Panic(t, FALSE, "poison")
     ELSE /\ dateLock' = t
          /\ Goto(t, IF current_date # today[t] THEN "open" ELSE "prune")
          /\ UNCHANGED <<fileLock, filePoison, datePoison>>
  /\ UNCHANGED <<cfgVars, clockVars, faults, fsVars, file, current_date,
                 todo, hist, today, newFile, scan, acq, histVars>>

\* rotate_daily_file, lines 56-62: open (or create) the file of the date read.
OpenNew(t) ==
  /\ pc[t] = "open"
  /\ \E ok \in Outcomes :
       /\ faults' = Spend(ok)
       /\ IF ~ok
          THEN /\ Panic(t, FALSE, "io")
               /\ UNCHANGED <<dir, inodes, newFile>>
          ELSE /\ newFile' = [newFile EXCEPT ![t] = OpenInode(dir, inodes, DatePath(today[t]))]
               /\ dir' = OpenDir(dir, inodes, DatePath(today[t]))
               /\ inodes' = OpenInodes(dir, inodes, DatePath(today[t]), now)
               /\ Goto(t, "swap")
               /\ UNCHANGED lockVars
  /\ UNCHANGED <<cfgVars, clockVars, olds, file, current_date, todo, hist,
                 today, scan, acq, histVars>>

\* SwapFile whose file guard lives on after the block.
SwapFile_guardkept(t) ==
  /\ pc[t] = "swap"
  /\ fileLock = 0
  /\ IF filePoison
     THEN /\ Panic(t, FALSE, "poison")
          /\ UNCHANGED <<file, current_date, acq, past>>
     ELSE /\ file' = newFile[t]
          /\ current_date' = today[t]
          /\ past' = past \cup {current_date}
          /\ acq' = [acq EXCEPT ![t] = @ + 1]
          /\ Goto(t, "prune")
          /\ fileLock' = t
          /\ UNCHANGED <<dateLock, filePoison, datePoison>>
  /\ UNCHANGED <<cfgVars, clockVars, faults, fsVars, todo, hist, today,
                 newFile, scan, removed, kept>>

\* rotate_daily_file, lines 64-68: under the file mutex, replace the writer
\* and the stored date; the file guard is dropped at the end of the block.
SwapFile(t) ==
  /\ pc[t] = "swap"
  /\ fileLock = 0
  /\ IF filePoison
     THEN /\ Panic(t, FALSE, "poison")
          /\ UNCHANGED <<file, current_date, acq, past>>
     ELSE /\ file' = newFile[t]
          /\ current_date' = today[t]
          /\ past' = past \cup {current_date}
          /\ acq' = [acq EXCEPT ![t] = @ + 1]
          /\ Goto(t, "prune")
          /\ UNCHANGED lockVars
  /\ UNCHANGED <<cfgVars, clockVars, faults, fsVars, todo, hist, today,
                 newFile, scan, removed, kept>>

\* rotate_daily_file, lines 70-72, and remove_old_log_files, line 106: with a
\* retention configured, list the directory.  The current_date guard lives to
\* the end of rotate_daily_file, so pruning runs under the date mutex.
StartPrune(t) ==
  /\ pc[t] = "prune"
  /\ IF ~IsSome(config.retention_days)
     THEN /\ dateLock' = 0
          /\ Goto(t, "lockfile")
          /\ UNCHANGED <<faults, scan, fileLock, filePoison, datePoison>>
     ELSE \E ok \in Outcomes :
            /\ faults' = Spend(ok)
            /\ IF ~ok
               THEN /\ Panic(t, FALSE, "io")
                    /\ UNCHANGED scan
               ELSE /\ scan' = [scan EXCEPT ![t] = {n \in Names : dir[n] # 0}]
                    /\ Goto(t, "scan")
                    /\ UNCHANGED lockVars
  /\ UNCHANGED <<cfgVars, clockVars, fsVars, file, current_date, todo, hist,
                 today, newFile, acq, histVars>>

\* TooOld with a defect: a file as old as the retention is removed too.
TooOld_inclusive(age) == age >= Unwrap(config.retention_days)

\* remove_old_log_files, line 119: the retention test.
TooOld(age) == age > Unwrap(config.retention_days)

\* What pruning saw of an entry it examined: the file, its mtime, the time.
Seen(n, tick) == [name |-> n, ino |-> dir[n], mtime |-> inodes[dir[n]].mtime, at |-> tick]

\* remove_old_log_files, lines 108-123: one directory entry.  An entry whose
\* extension is log is stat-ed and, when its age in whole days exceeds the
\* retention, removed; every Err is unwrapped.  When no entry is left,
\* rotate_daily_file returns and drops the current_date guard.
ScanEntry(t) ==
  /\ pc[t] = "scan"
  /\ IF scan[t] = {}
     THEN /\ dateLock' = 0
          /\ Goto(t, "lockfile")
          /\ UNCHANGED <<faults, dir, scan, fileLock, filePoison, datePoison, histVars>>
     ELSE \E n \in scan[t] :
            /\ scan' = [scan EXCEPT ![t] = @ \ {n}]
            /\ IF n.ext # "log"
               THEN /\ UNCHANGED <<faults, dir, pc, died, lockVars, histVars>>
               ELSE \E ok \in Outcomes :
                      /\ faults' = Spend(ok)
                      /\ IF ~ok \/ dir[n] = 0
                         THEN /\ Panic(t, FALSE, "io")
                              /\ UNCHANGED <<dir, histVars>>
                         ELSE LET age == NumDays(now - inodes[dir[n]].mtime) IN
                              /\ UNCHANGED <<pc, died, lockVars, past>>
                              /\ IF TooOld(age)
                                 THEN /\ dir' = [dir EXCEPT ![n] = 0]
                                      /\ removed' = removed \cup {Seen(n, now)}
                                      /\ UNCHANGED kept
                                 ELSE /\ kept' = kept \cup {Seen(n, now)}
                                      /\ UNCHANGED <<dir, removed>>
  /\ UNCHANGED <<cfgVars, clockVars, inodes, olds, file, current_date, todo,
                 hist, today, newFile, acq>>

\* LockFile with a defect: the write does not wait for the file mutex.
LockFile_nowait(t) ==
  /\ pc[t] = "lockfile"
  /\ IF filePoison
     THEN /\ Panic(t, FALSE, "poison")
          /\ UNCHANGED acq
     ELSE /\ fileLock' = t
          /\ acq' = [acq EXCEPT ![t] = @ + 1]
          /\ Goto(t, "writeln")
          /\ UNCHANGED <<dateLock, filePoison, datePoison>>
  /\ UNCHANGED <<cfgVars, clockVars, faults, fsVars, file, current_date,
                 todo, hist, today, newFile, scan, histVars>>

\* log, line 95: lock the file for the write.
LockFile(t) ==
  /\ pc[t] = "lockfile"
  /\ fileLock = 0
  /\ IF filePoison
     THEN /\ Panic(t, FALSE, "poison")
          /\ UNCHANGED acq
     ELSE /\ fileLock' = t
          /\ acq' = [acq EXCEPT ![t] = @ + 1]
          /\ Goto(t, "writeln")
          /\ UNCHANGED <<dateLock, filePoison, datePoison>>
  /\ UNCHANGED <<cfgVars, clockVars, faults, fsVars, file, current_date,
                 todo, hist, today, newFile, scan, histVars>>

\* log, line 96: writeln! writes the formatted text ...
WriteText(t) ==
  /\ pc[t] = "writeln"
  /\ \E ok \in Outcomes :
       /\ faults' = Spend(ok)
       /\ IF ~ok
          THEN /\ Panic(t, FALSE, "io")
               /\ UNCHANGED inodes
          ELSE /\ inodes' = WriteTo(inodes, file, TextTok(t), now)
               /\ Goto(t, "newline")
               /\ UNCHANGED lockVars
  /\ UNCHANGED <<cfgVars, clockVars, dir, olds, file, current_date, todo,
                 hist, today, newFile, scan, acq, histVars>>

\* ... and then the newline; line 97 flushes (the LineWriter has already
\* written the line out, and File::flush does nothing), and the guard is
\* dropped as log returns.
WriteNewline(t) ==
  /\ pc[t] = "newline"
  /\ \E ok \in Outcomes :
       /\ faults' = Spend(ok)
       /\ IF ~ok
          THEN /\ Panic(t, FALSE, "io")
               /\ UNCHANGED inodes
          ELSE /\ inodes' = WriteTo(inodes, file, NlTok(t), now)
               /\ fileLock' = 0
               /\ Goto(t, "idle")
               /\ UNCHANGED <<dateLock, filePoison, datePoison>>
  /\ UNCHANGED <<cfgVars, clockVars, dir, olds, file, current_date, todo,
                 hist, today, newFile, scan, acq, histVars>>

\* Ftail::flush whose sink ends the line it has open, even an empty one.
Ftail_flush_newline(t) ==
  /\ pc[t] = "idle"
  /\ todo[t] > 0
  /\ fileLock = 0
  /\ todo' = [todo EXCEPT ![t] = @ - 1]
  /\ hist' = [hist EXCEPT ![t] = Append(@, [op |-> "flush", level |-> Off, target |-> <<>>])]
  /\ IF filePoison
     THEN /\ Panic(t, FALSE, "poison")
          /\ UNCHANGED <<acq, inodes>>
     ELSE /\ acq' = [acq EXCEPT ![t] = @ + 1]
          /\ inodes' = WriteTo(inodes, file, [thr |-> t, call |-> Len(hist[t]) + 1, part |-> "nl"], now)
          /\ UNCHANGED <<pc, died, lockVars>>
  /\ UNCHANGED <<cfgVars, clockVars, faults, dir, olds, file, current_date,
                 today, newFile, scan, histVars>>

\* Ftail::flush and DailyFileLogger::flush: lock the file, flush the (empty)
\* LineWriter, unlock.
Ftail_flush(t) ==
  /\ pc[t] = "idle"
  /\ todo[t] > 0
  /\ fileLock = 0
  /\ todo' = [todo EXCEPT ![t] = @ - 1]
  /\ hist' = [hist EXCEPT ![t] = Append(@, [op |-> "flush", level |-> Off, target |-> <<>>])]
  /\ IF filePoison
     THEN /\ Panic(t, FALSE, "poison")
          /\ UNCHANGED acq
     ELSE /\ acq' = [acq EXCEPT ![t] = @ + 1]
          /\ UNCHANGED <<pc, died, lockVars>>
  /\ UNCHANGED <<cfgVars, clockVars, faults, fsVars, file, current_date,
                 today, newFile, scan, histVars>>

\* Ftail::flush with the wait for the mutex as a step of its own: the call is
\* made (lib.rs 431-433) ...
Ftail_flush_call(t) ==
  /\ pc[t] = "idle"
  /\ todo[t] > 0
  /\ todo' = [todo EXCEPT ![t] = @ - 1]
  /\ hist' = [hist EXCEPT ![t] = Append(@, [op |-> "flush", level |-> Off, target |-> <<>>])]
  /\ Goto(t, "flushing")
  /\ UNCHANGED <<cfgVars, clockVars, faults, fsVars, file, current_date,
                 lockVars, today, newFile, scan, acq, histVars>>

\* ... and DailyFileLogger::flush (daily_file.rs 100-102) locks the file,
\* flushes the writer, which holds nothing, unlocks and returns.
DailyFileLogger_flush(t) ==
  /\ pc[t] = "flushing"
  /\ fileLock = 0
  /\ IF filePoison
     THEN /\ Panic(t, FALSE, "poison")
          /\ UNCHANGED acq
     ELSE /\ acq' = [acq EXCEPT ![t] = @ + 1]
          /\ Goto(t, "idle")
          /\ UNCHANGED lockVars
  /\ UNCHANGED <<cfgVars, clockVars, faults, fsVars, file, current_date,
                 todo, hist, today, newFile, scan, histVars>>

\* Whole days pass while no call is in progress.
IdleDays(k) ==
  /\ \A t \in Threads : pc[t] = "idle"
  /\ (now - StartTick - ticks) \div TicksPerDay + k <= MaxIdleDays
  /\ now' = now + k * TicksPerDay
  /\ UNCHANGED <<cfgVars, ticks, faults, fsVars, file, current_date, lockVars,
                 pc, todo, hist, today, newFile, scan, acq, histVars, died>>

\* The wall clock advances.
Tick ==
  /\ ticks < MaxTicks
  /\ now' = now + 1
  /\ ticks' = ticks + 1
  /\ UNCHANGED <<cfgVars, faults, fsVars, file, current_date, lockVars, pc,
                 todo, hist, today, newFile, scan, acq, histVars, died>>

\* ================================================================ registry
\* The builder and Ftail::init.  One thread builds: it registers channels
\* and calls init, which consumes the builder.
\* add_channel (lines 296-302): push a LogChannel of the given constructor
\* and level.  daily_file and custom are the two constructors modelled.
add_channel(k, l) ==
  /\ ipc = "building"
  /\ Len(channels) < MaxChannels
  /\ channels' = Append(channels, [kind |-> k, level |-> l])
  /\ UNCHANGED <<config, file_path, taken, initialized_channels, logger, ipc,
                 result, news, perm, dispVars, single, clockVars, faults,
                 fsVars, file, current_date, lockVars, pc, todo, hist, today,
                 newFile, scan, acq, histVars, died>>

\* Ftail::init with its emptiness check left out.
Ftail_init_unchecked ==
  /\ ipc = "building"
  /\ taken' = channels
  /\ channels' = <<>>
  /\ ipc' = IF channels = <<>> THEN "install" ELSE "construct"
  /\ UNCHANGED result
  /\ UNCHANGED <<config, file_path, initialized_channels, logger, news, perm,
                 dispVars, single, clockVars, faults, fsVars, file,
                 current_date, lockVars, pc, todo, hist, today, newFile, scan,
                 acq, histVars, died>>

\* Ftail::init, lines 354-358: with no channel registered return
\* Err(NoChannelsError); otherwise take the channels out of the builder.
Ftail_init ==
  /\ ipc = "building"
  /\ IF channels = <<>>
     THEN /\ result' = "NoChannelsError"
          /\ ipc' = "returned"
          /\ UNCHANGED <<channels, taken>>
     ELSE /\ taken' = channels
          /\ channels' = <<>>
          /\ ipc' = "construct"
          /\ UNCHANGED result
  /\ UNCHANGED <<config, file_path, initialized_channels, logger, news, perm,
                 dispVars, single, clockVars, faults, fsVars, file,
                 current_date, lockVars, pc, todo, hist, today, newFile, scan,
                 acq, histVars, died>>

\* Where the environment may fail a constructor: nowhere, at the open, or at
\* the metadata call.
FaultPoints == IF faults > 0 THEN {"none", "open", "metadata"} ELSE {"none"}

\* OpenOptions::open with create(true) on a path of the target directory
\* succeeds when the file is there already, or when the directory is
\* writable, or when the process is privileged.
CanOpen(n) == dir[n] # 0 \/ ~perm.readonly \/ perm.root

\* DailyFileLogger::new (lines 26-49): what the call did and returned, the
\* environment failing it at f.  The file is opened (and created) at lines
\* 30-34, before the permissions of the directory are looked at (36-40).
DailyFileLogger_new(f) ==
  LET path == DatePath(DateOf(now))
      opened == f # "open" /\ CanOpen(path) IN
  [kind |-> "daily",
   readonly |-> perm.readonly,
   result |-> IF ~opened THEN "IoError"
              ELSE IF f = "metadata" THEN "IoError"
              ELSE IF perm.readonly THEN "PermissionsError"
              ELSE "Ok",
   opened |-> opened,
   created |-> (opened /\ dir[path] = 0)]

\* A custom constructor (lines 345-350) touches no file and cannot fail.
Custom_new ==
  [kind |-> "custom", readonly |-> FALSE, result |-> "Ok", opened |-> FALSE,
   created |-> FALSE]

\* LogChannel::init with the copy of the config left as the builder has it.
LogChannel_config_asis(ch) == config

\* init, lines 363-364: the config handed to a channel's constructor.
LogChannel_config(ch) == [config EXCEPT !.level_filter = ch.level]

\* init, lines 360-368, one channel: LogChannel::init (386-390) calls the
\* channel's constructor with its config.  The closure of daily_file
\* (337-339) unwraps the constructor's result, so an Err panics inside init.
\* collect() gathers the sinks in order; the builder is not used in between.
LogChannel_init ==
  /\ ipc = "construct"
  /\ LET i == Len(initialized_channels) + 1
         ch == taken[i]
         cfg == LogChannel_config(ch)
         path == DatePath(DateOf(now))
         next == IF i = Len(taken) THEN "install" ELSE "construct" IN
     IF ch.kind = "custom"
     THEN /\ news' = Append(news, Custom_new)
          /\ initialized_channels' = Append(initialized_channels, [kind |-> "custom", config |-> cfg])
          /\ sinks' = Append(sinks, [poisoned |-> FALSE, file |-> 0])
          /\ ipc' = next
          /\ UNCHANGED <<faults, fsVars, file, file_path, current_date, result>>
     ELSE \E f \in FaultPoints :
            LET r == DailyFileLogger_new(f) IN
            /\ faults' = IF f = "none" THEN faults ELSE faults - 1
            /\ news' = Append(news, r)
            /\ IF r.opened
               THEN /\ dir' = OpenDir(dir, inodes, path)
                    /\ inodes' = OpenInodes(dir, inodes, path, now)
               ELSE UNCHANGED <<dir, inodes>>
            /\ UNCHANGED olds
            /\ IF r.result = "Ok"
               THEN /\ initialized_channels' = Append(initialized_channels, [kind |-> "daily", config |-> cfg])
                    /\ sinks' = Append(sinks, [poisoned |-> FALSE, file |-> OpenInode(dir, inodes, path)])
                    /\ file' = OpenInode(dir, inodes, path)
                    /\ file_path' = path
                    /\ current_date' = DateOf(now)
                    /\ ipc' = next
                    /\ UNCHANGED result
               ELSE /\ ipc' = "panicked"
                    /\ result' = "panic"
                    /\ UNCHANGED <<initialized_channels, sinks, file, file_path, current_date>>
  /\ UNCHANGED <<config, channels, taken, logger, perm, at, delivered, single,
                 clockVars, lockVars, pc, todo, hist, today, newFile, scan,
                 acq, histVars, died>>

\* init, lines 370-371: log::set_boxed_logger fails when the facade has a
\* logger already; the error is returned as SetLoggerError.
set_boxed_logger ==
  /\ ipc = "install"
  /\ IF logger = "none"
     THEN /\ logger' = "ftail"
          /\ result' = "Ok"
          /\ ipc' = "done"
     ELSE /\ result' = "SetLoggerError"
          /\ ipc' = "returned"
          /\ UNCHANGED logger
  /\ UNCHANGED <<config, file_path, channels, taken, initialized_channels,
                 news, perm, dispVars, single, clockVars, faults, fsVars, file,
                 current_date, lockVars, pc, todo, hist, today, newFile, scan,
                 acq, histVars, died>>

\* ============================================================== dispatch
\* Ftail::log and Ftail::flush over the constructed sinks.  The clock stands
\* still here and the sinks have neither a size limit nor a retention, so
\* the rotation checks of a daily sink's log find nothing to do and the call
\* is its locked write alone; it is taken in one step.
\* DailyFileLogger::enabled for the config a sink was built with.
Sink_enabled(cfg, e) ==
  IF cfg.level_filter = Off THEN TRUE ELSE e.level <= cfg.level_filter

\* The event of the call a thread is in.
Record(t) == hist[t][Len(hist[t])]

\* The call a thread makes on the channel its loop is at.
Call(t, op) == [thr |-> t, call |-> CallNo(t), ch |-> at[t], op |-> op]

\* The loop goes on to the next channel, or the call returns.
Advance(t) ==
  IF at[t] < Len(initialized_channels)
  THEN /\ at' = [at EXCEPT ![t] = @ + 1]
       /\ UNCHANGED <<pc, died>>
  ELSE /\ at' = [at EXCEPT ![t] = 0]
       /\ Goto(t, "idle")

\* Ftail::log that starts its loop at the last channel.
Dispatch_log_last(t, e) ==
  /\ ipc = "done"
  /\ pc[t] = "idle"
  /\ todo[t] > 0
  /\ todo' = [todo EXCEPT ![t] = @ - 1]
  /\ hist' = [hist EXCEPT ![t] = Append(@, [op |-> "log", level |-> e.level, target |-> e.target])]
  /\ IF Ftail_enabled(e) /\ initialized_channels # <<>>
     THEN /\ at' = [at EXCEPT ![t] = Len(initialized_channels)]
          /\ Goto(t, "log")
     ELSE UNCHANGED <<at, pc, died>>
  /\ UNCHANGED <<config, file_path, regVars, delivered, sinks, single,
                 clockVars, faults, fsVars, file, current_date, lockVars,
                 today, newFile, scan, acq, histVars>>

\* Ftail::log, lines 421-426: an event the global filter rejects returns at
\* once; an accepted one enters the loop over initialized_channels.
Dispatch_log(t, e) ==
  /\ ipc = "done"
  /\ pc[t] = "idle"
  /\ todo[t] > 0
  /\ todo' = [todo EXCEPT ![t] = @ - 1]
  /\ hist' = [hist EXCEPT ![t] = Append(@, [op |-> "log", level |-> e.level, target |-> e.target])]
  /\ IF Ftail_enabled(e) /\ initialized_channels # <<>>
     THEN /\ at' = [at EXCEPT ![t] = 1]
          /\ Goto(t, "log")
     ELSE UNCHANGED <<at, pc, died>>
  /\ UNCHANGED <<config, file_path, regVars, delivered, sinks, single,
                 clockVars, faults, fsVars, file, current_date, lockVars,
                 today, newFile, scan, acq, histVars>>

\* Ftail::log, lines 426-428, one channel: channel.log(record).  A daily
\* sink checks its own level (daily_file.rs 86), locks its file and writes the
\* line (95-97); a poisoned mutex or an Err of the write panics, and the
\* panic while the guard is held poisons the mutex.
Channel_log(t) ==
  /\ pc[t] = "log"
  /\ delivered' = Append(delivered, Call(t, "log"))
  /\ LET i == at[t]
         ch == initialized_channels[i] IN
     IF ch.kind = "custom" \/ ~Sink_enabled(ch.config, Record(t))
     THEN /\ Advance(t)
          /\ UNCHANGED <<faults, inodes, sinks, lockVars>>
     ELSE IF sinks[i].poisoned
     THEN /\ Panic(t, FALSE, "poison")
          /\ UNCHANGED <<faults, inodes, sinks, at>>
     ELSE \E ok \in Outcomes :
            /\ faults' = Spend(ok)
            /\ IF ok
               THEN /\ inodes' = WriteTo(WriteTo(inodes, sinks[i].file, TextTok(t), now),
                                         sinks[i].file, NlTok(t), now)
                    /\ Advance(t)
                    /\ UNCHANGED <<sinks, lockVars>>
               ELSE /\ sinks' = [sinks EXCEPT ![i].poisoned = TRUE]
                    /\ Panic(t, FALSE, "io")
                    /\ UNCHANGED <<inodes, at>>
  /\ UNCHANGED <<config, file_path, regVars, single, clockVars, dir, olds,
                 file, current_date, todo, hist, today, newFile, scan, acq,
                 histVars>>

\* Ftail::flush, line 431-432: enter the loop over initialized_channels.
Dispatch_flush(t) ==
  /\ ipc = "done"
  /\ pc[t] = "idle"
  /\ todo[t] > 0
  /\ todo' = [todo EXCEPT ![t] = @ - 1]
  /\ hist' = [hist EXCEPT ![t] = Append(@, [op |-> "flush", level |-> Off, target |-> <<>>])]
  /\ IF initialized_channels # <<>>
     THEN /\ at' = [at EXCEPT ![t] = 1]
          /\ Goto(t, "flush")
     ELSE UNCHANGED <<at, pc, died>>
  /\ UNCHANGED <<config, file_path, regVars, delivered, sinks, single,
                 clockVars, faults, fsVars, file, current_date, lockVars,
                 today, newFile, scan, acq, histVars>>

\* Ftail::flush, lines 432-434, one channel: channel.flush().  A daily sink
\* locks its file and flushes the writer, which holds nothing (daily_file.rs
\* 100-102); a poisoned mutex panics.
Channel_flush(t) ==
  /\ pc[t] = "flush"
  /\ delivered' = Append(delivered, Call(t, "flush"))
  /\ IF initialized_channels[at[t]].kind = "daily" /\ sinks[at[t]].poisoned
     THEN /\ Panic(t, FALSE, "poison")
          /\ UNCHANGED at
     ELSE /\ Advance(t)
          /\ UNCHANGED lockVars
  /\ UNCHANGED <<config, file_path, regVars, sinks, single, clockVars, faults,
                 fsVars, file, current_date, todo, hist, today, newFile, scan,
                 acq, histVars>>

\* ============================================================ single file
\* SingleLogger (drivers/single.rs): one file at a fixed path.
\* The j-th token of the content the file had before the sink opened it.
OldTok(j) == [thr |-> 0, call |-> (j + 1) \div 2, part |-> IF j % 2 = 1 THEN "text" ELSE "nl"]

\* A write through a handle at an offset: it replaces what is there and
\* extends the file at its end.
WriteAt(ins, i, pos, tok, tick) ==
  [ins EXCEPT ![i] = [mtime |-> tick,
                      data |-> IF pos < Len(@.data)
                               THEN [@.data EXCEPT ![pos + 1] = tok]
                               ELSE Append(@.data, tok)]]

\* SingleLogger::new (lines 19-36): open the path with create, write and
\* append(append), no truncate; then look at the file's permissions.  An
\* existing read-only file cannot be opened for writing unless the process
\* is privileged.  The program constructs its sink once.
SingleLogger_new(append) ==
  /\ news = <<>>
  /\ ipc = "direct"
  /\ LET ro == perm.readonly /\ dir[DemoLog] # 0 IN
     \E f \in FaultPoints :
       LET opened == f # "open" /\ (~ro \/ perm.root)
           res == IF ~opened THEN "IoError"
                  ELSE IF f = "metadata" THEN "IoError"
                  ELSE IF ro THEN "PermissionsError"
                  ELSE "Ok"
           ino == OpenInode(dir, inodes, DemoLog) IN
       /\ faults' = IF f = "none" THEN faults ELSE faults - 1
       /\ news' = Append(news, [kind |-> "single", readonly |-> ro, result |-> res,
                                opened |-> opened, created |-> (opened /\ dir[DemoLog] = 0)])
       /\ IF opened
          THEN /\ dir' = OpenDir(dir, inodes, DemoLog)
               /\ inodes' = OpenInodes(dir, inodes, DemoLog, now)
          ELSE UNCHANGED <<dir, inodes>>
       /\ single' = IF res = "Ok"
                    THEN [file |-> ino, append |-> append, pos |-> 0,
                          had |-> IF dir[DemoLog] = 0 THEN 0 ELSE Len(inodes[ino].data),
                          poisoned |-> FALSE]
                    ELSE single
  /\ UNCHANGED <<config, file_path, channels, taken, initialized_channels,
                 logger, ipc, result, perm, dispVars, clockVars, olds, file,
                 current_date, lockVars, pc, todo, hist, today, newFile, scan,
                 acq, histVars, died>>

\* Where a write through the SingleLogger's handle lands: at the end of the
\* file when it was opened with append, at the handle's offset otherwise.
Offset == IF single.append THEN Len(inodes[single.file].data) ELSE single.pos

\* SingleLogger::log (lines 44-50): every record is written (enabled is
\* always true): lock the file, write the line, flush.  The line is written
\* under one hold of the mutex; an Err panics and poisons the mutex.
SingleLogger_log(t, e) ==
  /\ single.file # 0
  /\ pc[t] = "idle"
  /\ todo[t] > 0
  /\ todo' = [todo EXCEPT ![t] = @ - 1]
  /\ hist' = [hist EXCEPT ![t] = Append(@, [op |-> "log", level |-> e.level, target |-> e.target])]
  /\ IF single.poisoned
     THEN /\ Panic(t, FALSE, "poison")
          /\ UNCHANGED <<faults, inodes, single>>
     ELSE \E ok \in Outcomes :
            /\ faults' = Spend(ok)
            /\ IF ok
               THEN /\ inodes' = WriteAt(WriteAt(inodes, single.file, Offset,
                                                 [thr |-> t, call |-> Len(hist[t]) + 1, part |-> "text"], now),
                                         single.file, Offset + 1,
                                         [thr |-> t, call |-> Len(hist[t]) + 1, part |-> "nl"], now)
                    /\ single' = [single EXCEPT !.pos = Offset + 2]
                    /\ UNCHANGED <<pc, died, lockVars>>
               ELSE /\ single' = [single EXCEPT !.poisoned = TRUE]
                    /\ Panic(t, FALSE, "io")
                    /\ UNCHANGED inodes
  /\ UNCHANGED <<config, file_path, regVars, dispVars, clockVars, dir, olds,
                 file, current_date, today, newFile, scan, acq, histVars>>

\* SingleLogger::flush (lines 52-54): lock the file and flush the writer,
\* which holds nothing.
SingleLogger_flush(t) ==
  /\ single.file # 0
  /\ pc[t] = "idle"
  /\ todo[t] > 0
  /\ todo' = [todo EXCEPT ![t] = @ - 1]
  /\ hist' = [hist EXCEPT ![t] = Append(@, [op |-> "flush", level |-> Off, target |-> <<>>])]
  /\ IF single.poisoned
     THEN Panic(t, FALSE, "poison")
     ELSE UNCHANGED <<pc, died, lockVars>>
  /\ UNCHANGED <<config, file_path, regVars, dispVars, single, clockVars,
                 faults, fsVars, file, current_date, today, newFile, scan, acq,
                 histVars>>

\* ------------------------------------------------------------------- Init
\* The state after Ftail::init with one daily_file channel: DailyFileLogger::new
\* ran at StartTick and opened (created) the file of that day.  The directory
\* may already hold an older daily file, a foreign notes.log and a readme.txt
\* (inodes 1, 2 and 3; the sink's own file is inode 4).
InitWith(Cfgs, Todos, Faults, Pres) ==
  /\ config \in Cfgs
  /\ todo \in Todos
  /\ faults \in Faults
  /\ now = StartTick
  /\ ticks = 0
  /\ \E p \in Pres :
       /\ dir = [n \in Names |->
                  IF n = DatePath(StartDay) THEN 4
                  ELSE IF p.old /\ n = DatePath(DateOf(StartTick - p.oldAge)) THEN 1
                  ELSE IF p.notes /\ n = NotesLog THEN 2
                  ELSE IF p.readme /\ n = ReadmeTxt THEN 3
                  ELSE 0]
       /\ inodes = << [mtime |-> StartTick - p.oldAge, data |-> <<>>],
                      [mtime |-> StartTick - p.notesAge, data |-> <<>>],
                      [mtime |-> 0, data |-> <<>>],
                      [mtime |-> StartTick, data |-> <<>>] >>
  /\ olds = <<>>
  /\ file = 4
  /\ file_path = DatePath(StartDay)
  /\ current_date = StartDay
  /\ fileLock = 0
  /\ dateLock = 0
  /\ filePoison = FALSE
  /\ datePoison = FALSE
  /\ pc = [t \in Threads |-> "idle"]
  /\ hist = [t \in Threads |-> <<>>]
  /\ today = [t \in Threads |-> StartDay]
  /\ newFile = [t \in Threads |-> 0]
  /\ scan = [t \in Threads |-> {}]
  /\ acq = [t \in Threads |-> 0]
  /\ removed = {}
  /\ kept = {}
  /\ past = {}
  /\ died = [t \in Threads |-> [at |-> "", of |-> ""]]
  /\ channels = <<>>
  /\ taken = <<[kind |-> "daily", level |-> config.level_filter]>>
  /\ initialized_channels = <<[kind |-> "daily", config |-> config]>>
  /\ logger = "ftail"
  /\ ipc = "done"
  /\ result = "Ok"
  /\ news = <<[kind |-> "daily", readonly |-> FALSE, result |-> "Ok",
               opened |-> TRUE, created |-> TRUE]>>
  /\ perm = [readonly |-> FALSE, root |-> FALSE]
  /\ at = [t \in Threads |-> 0]
  /\ delivered = <<>>
  /\ sinks = <<[poisoned |-> FALSE, file |-> 4]>>
  /\ single = NoSingle

\* One step of the program, the events logged drawn from E.
Step(E) ==
  \/ \E t \in Threads : \E e \in E : Ftail_log(t, e)
  \/ \E t \in Threads : Ftail_flush(t)
  \/ \E t \in Threads : rotate_if_exceeds_max_file_size(t)
  \/ \E t \in Threads : ReadClock(t)
  \/ \E t \in Threads : LockDate(t)
  \/ \E t \in Threads : OpenNew(t)
  \/ \E t \in Threads : SwapFile(t)
  \/ \E t \in Threads : StartPrune(t)
  \/ \E t \in Threads : ScanEntry(t)
  \/ \E t \in Threads : LockFile(t)
  \/ \E t \in Threads : WriteText(t)
  \/ \E t \in Threads : WriteNewline(t)
  \/ Tick

\* ---------------------------------------------------------- configurations
Cfg(lf, ms, rd, ls, ts) ==
  [level_filter |-> lf, max_file_size |-> ms, retention_days |-> rd,
   levels |-> ls, targets |-> ts]

Ev(l, tg) == [level |-> l, target |-> tg]

NoPre == [old |-> FALSE, oldAge |-> TicksPerDay, notes |-> FALSE, notesAge |-> 0, readme |-> FALSE]

OnlyFirst(n) == [t \in Threads |-> IF t = 1 THEN n ELSE 0]
Everyone(n) == [t \in Threads |-> n]

\* An older daily file and a notes.log, each of the given age in days and
\* ticks, beside a readme.txt.
Pre(oldDays, oldFrac, notesDays, notesFrac) ==
  [old |-> TRUE, oldAge |-> oldDays * TicksPerDay + oldFrac,
   notes |-> TRUE, notesAge |-> notesDays * TicksPerDay + notesFrac,
   readme |-> TRUE]

\* Concurrent writers on the daily sink: every event accepted, with and
\* without a size limit and a retention, no I/O failure.
Init ==
  InitWith({Cfg(Trace, ms, rd, None, None) : ms \in {None, Some(1)}, rd \in {None, Some(0)}},
           {Everyone(MaxCalls)}, {0}, {NoPre})

Next == Step({Ev(Info, TFoo)})

Spec == Init /\ [][Next]_vars

\* The same without a size limit: daily rotation alone.
InitDaily ==
  InitWith({Cfg(Trace, None, rd, None, None) : rd \in {None, Some(0)}},
           {Everyone(MaxCalls)}, {0}, {NoPre})

SpecDaily == InitDaily /\ [][Next]_vars

\* The filters: one caller, every level filter of the sink, global level and
\* target allow-lists, events of every level and of several targets.
FilterCfgs ==
  {Cfg(lf, None, None, ls, ts) :
     lf \in LevelFilters,
     ls \in {None, Some({Error, Info}), Some({})},
     ts \in {None, Some({TFoo}), Some({TFoo, TBaz}), Some({TEmpty}), Some({})}}
  \cup {Cfg(Trace, None, Some(0), None, None)}

FilterEvents == {Ev(l, tg) : l \in Levels, tg \in {TFooBar, TFoo, TFo, TBaz}}

InitFilter == InitWith(FilterCfgs, {OnlyFirst(MaxCalls)}, {0}, {NoPre})

NextFilter == Step(FilterEvents)

SpecFilter == InitFilter /\ [][NextFilter]_vars

\* Retention: a directory that holds older files, retentions of 0, 1 and 7
\* days, no I/O failure.
PruneCfgs == {Cfg(Trace, None, Some(rd), None, None) : rd \in {0, 1, 7}}

PrunePres ==
  {Pre(od, of, nd, nf) : od \in {1, 8}, of \in {0, 1}, nd \in {0, 6, 7}, nf \in {0, 1}}

InitPrune == InitWith(PruneCfgs, {Everyone(1)}, {0}, PrunePres)

SpecPrune == InitPrune /\ [][Next]_vars

\* I/O failures: the environment may fail up to MaxFaults I/O steps.
InitFault ==
  InitWith({Cfg(Trace, None, rd, None, None) : rd \in {None, Some(0)}},
           {Everyone(MaxCalls)}, {MaxFaults}, {NoPre, Pre(1, 0, 0, 0)})

SpecFault == InitFault /\ [][Next]_vars

\* Scheduling: the steps of one thread, the calls it makes included.  Every
\* thread that can take a step is eventually scheduled.
Run(t) ==
  \/ Ftail_log(t, Ev(Info, TFoo))
  \/ Ftail_flush_call(t)
  \/ DailyFileLogger_flush(t)
  \/ rotate_if_exceeds_max_file_size(t)
  \/ ReadClock(t)
  \/ LockDate(t)
  \/ OpenNew(t)
  \/ SwapFile(t)
  \/ StartPrune(t)
  \/ ScanEntry(t)
  \/ LockFile(t)
  \/ WriteText(t)
  \/ WriteNewline(t)

NextLive ==
  \/ \E t \in Threads : Run(t)
  \/ Tick

Fairness == \A t \in Threads : WF_vars(Run(t))

SpecLive == InitDaily /\ [][NextLive]_vars /\ Fairness

\* Idle days: a sink of level Info behind a global target filter, with and
\* without a retention; events that pass, one the sink's level rejects, one
\* the global filter rejects; days may pass between the calls.
IdleEvents == {Ev(Info, TFoo), Ev(Debug, TFoo), Ev(Info, TBaz)}

InitIdle ==
  InitWith({Cfg(Info, None, rd, None, Some({TFoo})) : rd \in {None, Some(1)}},
           {Everyone(1)}, {0}, {Pre(1, 0, 0, 0)})

NextIdle ==
  \/ Step(IdleEvents)
  \/ \E k \in 1..MaxIdleDays : IdleDays(k)

SpecIdle == InitIdle /\ [][NextIdle]_vars

\* The builder, init and the dispatcher: the state before any channel is
\* registered.  The environment: the facade has a logger already or not, the
\* directory is read-only or not, the process privileged or not, the file of
\* the day is there already or not.
\* A file that is there before the program starts, with lines of its own.
OldFile(n, ex, k) == [name |-> n, exists |-> ex, lines |-> k]

RegLevels == {Off, Warn}
RegEvents == {Ev(Error, TFoo), Ev(Info, TFoo), Ev(Error, TBaz)}

InitBuild(Faults, Files, start) ==
  /\ config = Cfg(Off, None, None, None, Some({TFoo}))
  /\ todo = [t \in Threads |-> IF t = 1 THEN MaxCalls ELSE 1]
  /\ faults \in Faults
  /\ now = StartTick
  /\ ticks = 0
  /\ \E f \in Files :
       /\ dir = [n \in Names |-> IF f.exists /\ n = f.name THEN 1 ELSE 0]
       /\ inodes = IF f.exists
                   THEN <<[mtime |-> StartTick, data |-> [j \in 1..2 * f.lines |-> OldTok(j)]]>>
                   ELSE <<>>
  /\ olds = <<>>
  /\ file = 0
  /\ file_path = DatePath(0)
  /\ current_date = 0
  /\ fileLock = 0
  /\ dateLock = 0
  /\ filePoison = FALSE
  /\ datePoison = FALSE
  /\ pc = [t \in Threads |-> "idle"]
  /\ hist = [t \in Threads |-> <<>>]
  /\ today = [t \in Threads |-> 0]
  /\ newFile = [t \in Threads |-> 0]
  /\ scan = [t \in Threads |-> {}]
  /\ acq = [t \in Threads |-> 0]
  /\ removed = {}
  /\ kept = {}
  /\ past = {}
  /\ died = [t \in Threads |-> [at |-> "", of |-> ""]]
  /\ channels = <<>>
  /\ taken = <<>>
  /\ initialized_channels = <<>>
  /\ logger \in {"none", "other"}
  /\ ipc = start
  /\ result = ""
  /\ news = <<>>
  /\ perm \in {[readonly |-> FALSE, root |-> FALSE],
               [readonly |-> TRUE, root |-> FALSE],
               [readonly |-> TRUE, root |-> TRUE]}
  /\ at = [t \in Threads |-> 0]
  /\ delivered = <<>>
  /\ sinks = <<>>
  /\ single = NoSingle

NextReg ==
  \/ \E k \in {"daily", "custom"} : \E l \in RegLevels : add_channel(k, l)
  \/ Ftail_init
  \/ LogChannel_init
  \/ set_boxed_logger
  \/ \E t \in Threads : \E e \in RegEvents : Dispatch_log(t, e)
  \/ \E t \in Threads : Channel_log(t)
  \/ \E t \in Threads : Dispatch_flush(t)
  \/ \E t \in Threads : Channel_flush(t)

RegFiles == {OldFile(DatePath(StartDay), ex, 0) : ex \in BOOLEAN}

InitReg == InitBuild({0}, RegFiles, "building")

SpecInit == InitReg /\ [][NextReg]_vars

\* The same with I/O failures.
InitRegFault == InitBuild({MaxFaults}, RegFiles, "building")

SpecInitFault == InitRegFault /\ [][NextReg]_vars

\* The SingleLogger used on its own: the file is absent, or is there with up
\* to MaxOldLines lines; it is opened with append or without.
SingleFiles ==
  {OldFile(DemoLog, FALSE, 0)} \cup {OldFile(DemoLog, TRUE, k) : k \in 0..MaxOldLines}

InitSingle == InitBuild({0, MaxFaults}, SingleFiles, "direct")

NextSingle ==
  \/ \E a \in BOOLEAN : SingleLogger_new(a)
  \/ \E t \in Threads : \E e \in RegEvents : SingleLogger_log(t, e)
  \/ \E t \in Threads : SingleLogger_flush(t)

SpecSingle == InitSingle /\ [][NextSingle]_vars

\* ================================================================= claims
\* The calls: thread t's k-th call has returned; its line is in a file.
Calls == {c \in Threads \X (1..MaxCalls + 1) : c[2] <= Len(hist[c[1]])}
CallEvent(c) == hist[c[1]][c[2]]
LogCalls == {c \in Calls : CallEvent(c).op = "log"}
Returned(c) == c[2] < Len(hist[c[1]]) \/ pc[c[1]] = "idle"
LineTok(c) == [thr |-> c[1], call |-> c[2], part |-> "nl"]
Occurrences(i, tok) == Cardinality({j \in 1..Len(inodes[i].data) : inodes[i].data[j] = tok})
Written(c) == \E i \in 1..Len(inodes) : Occurrences(i, LineTok(c)) > 0

\* The global filter as the specification words it: the level is in the
\* level allow-list, if there is one, and some listed prefix is an initial
\* segment of the target, if there is a target allow-list.
InitialSegment(p, s) ==
  /\ Len(p) <= Len(s)
  /\ \A i \in 1..Len(p) : s[i] = p[i]
GlobalAccepts(e) ==
  /\ (config.levels = None \/ e.level \in config.levels[1])
  /\ (config.targets = None \/ \E p \in config.targets[1] : InitialSegment(p, e.target))

\* C1 as claimed: an event is written by the daily sink if and only if its
\* level is at most the sink's level filter L (Off included) and the global
\* filters accept it.
C1_WrittenIffLevelAtMostFilter ==
  \A c \in LogCalls :
    Returned(c) =>
      (Written(c) <=> (CallEvent(c).level <= config.level_filter /\ GlobalAccepts(CallEvent(c))))

\* C1 as amended: an event is written by the daily sink if and only if the
\* global filters accept it and either the sink's level filter is Off or the
\* event's level is at most the filter.
C1_WrittenIffEnabled ==
  \A c \in LogCalls :
    Returned(c) =>
      (Written(c) <=>
         /\ (config.level_filter = Off \/ CallEvent(c).level <= config.level_filter)
         /\ GlobalAccepts(CallEvent(c)))

\* C1's case: a sink whose level filter is Off has written a Trace event
\* that the global filters accept.
C1_Witness ==
  /\ config.level_filter = Off
  /\ \E c \in LogCalls :
       Returned(c) /\ Written(c) /\ CallEvent(c).level = Trace /\ GlobalAccepts(CallEvent(c))

\* C2: an event reaches the sink only if the global filter accepts it, and
\* the global filter accepts exactly the events whose level is allow-listed
\* (or no level list is set) and whose target starts with a listed prefix
\* (or no target list is set).
C2_GlobalFilter ==
  \A c \in LogCalls :
    /\ Ftail_enabled(CallEvent(c)) <=> GlobalAccepts(CallEvent(c))
    /\ Returned(c) =>
         (Written(c) <=> (GlobalAccepts(CallEvent(c)) /\ Daily_enabled(CallEvent(c))))

\* C2's case: with the prefix foo allow-listed, an event of target foo::bar
\* has been written and an event of target baz has returned unwritten.
C2_Witness ==
  /\ config.targets = Some({TFoo})
  /\ \E c \in LogCalls : Returned(c) /\ Written(c) /\ CallEvent(c).target = TFooBar
  /\ \E c \in LogCalls : Returned(c) /\ ~Written(c) /\ CallEvent(c).target = TBaz
                           /\ Daily_enabled(CallEvent(c))

\* A thread is inside the write path of a log call: its rotation checks have
\* begun and its line is not yet appended.
InWritePath(t) ==
  pc[t] \in {"clock", "lockdate", "open", "swap", "prune", "scan", "lockfile",
             "writeln", "newline"}

\* A step in which thread t does nothing.
Unmoved(t) == pc'[t] = pc[t] /\ scan'[t] = scan[t] /\ hist'[t] = hist[t]

\* C3: while one thread is between its rotation checks and the end of its
\* append, no other thread takes the file mutex and writes to a file of the
\* sink or replaces the sink's file.
C3_SingleCriticalSection ==
  [][\A t \in Threads :
        (InWritePath(t) /\ Unmoved(t)) =>
           /\ file' = file
           /\ \A i \in 1..Len(inodes) : inodes'[i].data = inodes[i].data]_vars

\* The file at the path of date d stays as it is in a step (its removal apart).
PathUntouched(d) ==
  (dir[DatePath(d)] # 0 /\ dir'[DatePath(d)] # 0) =>
     /\ dir'[DatePath(d)] = dir[DatePath(d)]
     /\ inodes'[dir[DatePath(d)]].data = inodes[dir[DatePath(d)]].data

\* C4: the stored date never moves backwards, and a date the sink has moved
\* past gets no further write.
C4_DateNeverGoesBack ==
  [][/\ current_date' >= current_date
     /\ \A d \in past : d < current_date => PathUntouched(d)]_vars

\* The lines of a file are whole: each text is followed at once by its own
\* newline; only the thread that holds the file mutex may have a line open
\* at the very end.
WholeLines(i) ==
  LET data == inodes[i].data IN
  \A j \in 1..Len(data) :
    IF data[j].part = "text"
    THEN IF j < Len(data)
         THEN data[j + 1] = [data[j] EXCEPT !.part = "nl"]
         ELSE fileLock = data[j].thr /\ pc[data[j].thr] = "newline"
    ELSE j > 1 /\ data[j - 1] = [data[j] EXCEPT !.part = "text"]

\* The files of the sink that exist: the directory's and the .old<N> ones.
Linked == ({dir[n] : n \in Names} \ {0}) \cup {olds[j] : j \in 1..Len(olds)}
LinesOf(c) == {<<i, j>> \in Linked \X (1..2 * NumThreads * (MaxCalls + 1)) :
                 j <= Len(inodes[i].data) /\ inodes[i].data[j] = LineTok(c)}
AllDone == \A t \in Threads : pc[t] = "idle" /\ todo[t] = 0

C6_OldFileUntouched ==
  [][\A d \in past' : PathUntouched(d)]_vars

\* C7: pruning removes only files named <date>.log that are older than the
\* retention, and the file the sink has open is always one that exists.
C7_PruneOnlyOwnOldFiles ==
  /\ \A r \in removed :
       /\ r.name.kind = "date"
       /\ r.name.ext = "log"
       /\ NumDays(r.at - r.mtime) > config.retention_days[1]
  /\ file \in Linked

\* C8: pruning removes a .log file it examines if and only if the whole days
\* between the file's last modification and the examination exceed the
\* retention; a removed file is gone from the directory, a kept one is not
\* unlinked by that examination.
C8_RemovedIffOlderThanRetention ==
  /\ \A r \in removed :
       /\ (r.at - r.mtime) \div TicksPerDay > config.retention_days[1]
       /\ dir[r.name] # r.ino
  /\ \A k \in kept :
       /\ (k.at - k.mtime) \div TicksPerDay <= config.retention_days[1]
       /\ (dir[k.name] = k.ino \/ \E r \in removed : r.ino = k.ino /\ r.at >= k.at)

\* C8's case: with a retention of 7 days, a write has removed a file
\* modified 8 days before and kept one modified 7 days before.
C8_Witness ==
  /\ config.retention_days = Some(7)
  /\ \E r \in removed : r.at - r.mtime = 8 * TicksPerDay
  /\ \E k \in kept : k.at - k.mtime = 7 * TicksPerDay /\ dir[k.name] = k.ino
  /\ \E c \in LogCalls : Returned(c) /\ Written(c)

\* C9: a failure to stat or to remove one file during pruning aborts neither
\* the scan nor the log call: no thread ends in the scan.
C9_PruneFailureIsolated ==
  \A t \in Threads : ~(pc[t] = "panicked" /\ died[t].at = "scan")

\* C10: an I/O failure costs one event only: no thread is aborted by a
\* failure of its own call, and no call finds the sink unusable afterwards.
C10_FailureLosesOneEvent ==
  \A t \in Threads : pc[t] # "panicked"

\* init is over: it returned or it panicked.
InitOver == ipc \in {"returned", "done", "panicked"}
ErrorValues == {"NoChannelsError", "IoError", "PermissionsError", "SetLoggerError"}

\* C11: when no sink was registered, or a registered file sink could not be
\* constructed (its target cannot be opened or is read-only), or the facade
\* had a logger already, init returns an error value: it does not panic.
C11_InitReturnsError ==
  (/\ InitOver
   /\ \/ taken = <<>>
      \/ \E j \in 1..Len(news) : news[j].result # "Ok"
      \/ logger = "other")
    => result \in ErrorValues

\* C12: init on a builder with no channel returns NoChannelsError, and that
\* call constructs no sink, creates and opens no file, and installs no logger.
C12_NoChannelsNoEffect ==
  /\ [](/\ (InitOver /\ taken = <<>>) => result = "NoChannelsError"
        /\ result = "NoChannelsError" =>
             /\ news = <<>> /\ initialized_channels = <<>> /\ sinks = <<>>
             /\ file = 0
             /\ logger # "ftail")
  /\ [][(ipc = "building" /\ ipc' # "building" /\ channels = <<>>) =>
          /\ result' = "NoChannelsError"
          /\ UNCHANGED <<fsVars, file, logger, initialized_channels, sinks, news>>]_vars

\* C12's case: init was called with no channel registered and has returned.
C12_Witness ==
  /\ ipc = "returned"
  /\ taken = <<>>
  /\ result = "NoChannelsError"

\* C13: a file sink constructed on a read-only target returns the
\* permission error, having neither opened nor created a file.
C13_ReadOnlyIsPermissionError ==
  \A j \in 1..Len(news) :
    (news[j].kind \in {"daily", "single"} /\ news[j].readonly) =>
       /\ news[j].result = "PermissionsError"
       /\ ~news[j].opened
       /\ ~news[j].created

\* The sink calls the dispatcher made for a call, in the order it made them.
Deliveries(c) == SelectSeq(delivered, LAMBDA d : d.thr = c[1] /\ d.call = c[2])
FlushCalls == {c \in Calls : CallEvent(c).op = "flush"}
Ended(c) == Returned(c) \/ pc[c[1]] = "panicked"

\* C14: a flush call that has ended has flushed every constructed sink, in
\* the order of registration, whatever happened while flushing one of them.
C14_FlushReachesEverySink ==
  \A c \in FlushCalls :
    Ended(c) =>
      /\ Len(Deliveries(c)) = Len(initialized_channels)
      /\ \A k \in 1..Len(Deliveries(c)) : Deliveries(c)[k].ch = k

\* The sink built from a channel registered with level l writes an event.
PassesLevel(l, e) == l = Off \/ e.level <= l

\* C17: for an event the global filter accepts, the dispatcher calls the log
\* of the sinks one after the other in the order of registration, each once,
\* in the caller's thread, and returns after the last; for a rejected event
\* it calls none.  Each daily sink whose level lets the event pass has
\* written the line once when the call returns.
C17_DispatchInOrder ==
  \A c \in LogCalls :
    LET ds == Deliveries(c)
        n == Len(initialized_channels) IN
    /\ \A k \in 1..Len(ds) : ds[k] = [thr |-> c[1], call |-> c[2], ch |-> k, op |-> "log"]
    /\ Len(ds) = IF ~GlobalAccepts(CallEvent(c)) THEN 0
                 ELSE IF Returned(c) THEN n
                 ELSE at[c[1]] - 1
    /\ (Returned(c) /\ GlobalAccepts(CallEvent(c))) =>
          Cardinality({<<i, j>> \in (1..Len(inodes)) \X (1..2 * MaxChannels * NumThreads * MaxCalls) :
                         j <= Len(inodes[i].data) /\ inodes[i].data[j] = LineTok(c)})
            = Cardinality({i \in 1..n : taken[i].kind = "daily"
                                        /\ PassesLevel(taken[i].level, CallEvent(c))})

\* C17's case: with two sinks, an accepted event has been delivered to both
\* and its call has returned, while one sink let it pass and the other not.
C17_Witness ==
  /\ Len(initialized_channels) = 2
  /\ \E c \in LogCalls :
       /\ Returned(c)
       /\ Len(Deliveries(c)) = 2
       /\ Written(c)
       /\ \E i \in 1..2 : taken[i].kind = "daily" /\ ~PassesLevel(taken[i].level, CallEvent(c))

\* C18: a successful init has built every registered channel once, in the
\* order of registration, each from the builder's config with level_filter
\* replaced by the channel's level; no channel is pending any more, as many
\* sinks are active as channels were registered, and from then on the list
\* of active sinks does not change.
C18_InitBuildsEachOnce ==
  /\ [](/\ Len(initialized_channels) <= Len(taken)
        /\ Len(news) >= Len(initialized_channels)
        /\ \A i \in 1..Len(initialized_channels) :
             /\ news[i].kind = taken[i].kind
             /\ news[i].result = "Ok"
             /\ initialized_channels[i].kind = taken[i].kind
             /\ initialized_channels[i].config =
                  [level_filter |-> taken[i].level,
                   max_file_size |-> config.max_file_size,
                   retention_days |-> config.retention_days,
                   levels |-> config.levels,
                   targets |-> config.targets]
        /\ result = "Ok" =>
             /\ channels = <<>>
             /\ Len(initialized_channels) = Len(taken)
             /\ Len(news) = Len(taken)
             /\ Len(taken) > 0)
  /\ [][result = "Ok" =>
          /\ initialized_channels' = initialized_channels
          /\ channels' = channels
          /\ result' = result]_vars

\* C18's case: init succeeded on two channels of different levels, and the
\* dispatcher has been delivering since.
C18_Witness ==
  /\ result = "Ok"
  /\ Len(taken) = 2
  /\ taken[1].level # taken[2].level
  /\ Len(delivered) > 2

\* The lines of the SingleLogger's file that were written through the sink.
SinkTokens == {j \in 1..Len(inodes[single.file].data) : inodes[single.file].data[j].thr # 0}

\* C15: opened with append, the sink keeps what the file held and writes
\* after it; opened without, the file holds only lines written through the
\* sink once the first write is done.
C15_AppendOrTruncate ==
  single.file # 0 =>
    LET data == inodes[single.file].data IN
    IF single.append
    THEN /\ Len(data) >= single.had
         /\ \A j \in 1..single.had : data[j] = OldTok(j)
         /\ \A j \in (single.had + 1)..Len(data) : data[j].thr # 0
    ELSE SinkTokens # {} => \A j \in 1..Len(data) : data[j].thr # 0

\* Thread t makes a flush call in this step.
FlushStep(t) ==
  /\ Len(hist'[t]) = Len(hist[t]) + 1
  /\ hist'[t][Len(hist'[t])].op = "flush"

\* The latest call of some thread is a flush that has returned.
JustFlushed ==
  \E u \in Threads :
    Len(hist[u]) > 0 /\ hist[u][Len(hist[u])].op = "flush" /\ pc[u] = "idle"

\* C16: a flush that follows a flush changes no file content, no name in the
\* directory, not the open file and not the stored date, and it returns.
C16_FlushTwiceChangesNothing ==
  [][\A t \in Threads :
        (FlushStep(t) /\ JustFlushed) =>
           /\ UNCHANGED <<inodes, dir, olds, file, file_path, current_date>>
           /\ pc'[t] = "idle"]_vars

\* C16's case: a thread has flushed twice in a row after a line was written.
C16_Witness ==
  /\ \E t \in Threads :
       /\ Len(hist[t]) >= 2
       /\ hist[t][Len(hist[t])].op = "flush"
       /\ hist[t][Len(hist[t]) - 1].op = "flush"
       /\ pc[t] = "idle"
  /\ \E c \in LogCalls : Returned(c) /\ Written(c)

\* Thread t is inside a log call of the sink, for an event that the global
\* filter and the sink's level let pass, and takes this step.
AcceptedMover(t) ==
  /\ pc[t] \in {"size", "clock", "lockdate", "open", "swap", "prune", "scan",
                "lockfile", "writeln", "newline"}
  /\ ~Unmoved(t)
  /\ GlobalAccepts(Record(t))
  /\ PassesLevel(config.level_filter, Record(t))

\* C19: the files, the sink's handle and its stored date change only in a
\* step of a log call for an event that passes the global filter and the
\* sink's level; the passing of time and rejected events change nothing.  A
\* file is created only as the file of the date a write has just read from
\* the clock, and the sink switches to that date at once: the days in
\* between get no file.
C19_ChangesOnlyInAcceptedWrites ==
  /\ [][(<<dir, inodes, olds, file, current_date>>' # <<dir, inodes, olds, file, current_date>>)
          => \E t \in Threads : AcceptedMover(t)]_vars
  /\ [][\A t \in Threads :
          (pc[t] = "clock" /\ pc'[t] = "lockdate") => today'[t] = DateOf(now)]_vars
  /\ [][\A n \in Names :
          (dir[n] = 0 /\ dir'[n] # 0) =>
             \E t \in Threads : pc[t] = "open" /\ AcceptedMover(t) /\ n = DatePath(today[t])]_vars
  /\ [][current_date' # current_date =>
          \E t \in Threads : /\ pc[t] = "swap" /\ AcceptedMover(t)
                             /\ current_date' = today[t]
                             /\ file' = dir[DatePath(today[t])]]_vars
  /\ [](\A d \in Days :
          (d > StartDay /\ dir[DatePath(d)] # 0) =>
             \/ d \in past \cup {current_date}
             \/ \E t \in Threads : pc[t] = "swap" /\ today[t] = d)

\* C19's case: after at least two idle days, during which rejected events
\* came, an accepted write has switched the sink from the first day to the
\* current one, and no day in between has a file.
C19_Witness ==
  /\ past = {StartDay}
  /\ current_date >= StartDay + 2
  /\ \A d \in Days : (StartDay < d /\ d < current_date) => dir[DatePath(d)] = 0
  /\ \E c \in LogCalls : Returned(c) /\ ~Written(c)
  /\ \E c \in LogCalls : Returned(c) /\ Written(c)

\* C20: log and flush calls on one daily sink do not deadlock.  A thread that
\* holds the file mutex never waits for the current_date mutex, and under
\* fair scheduling, with no I/O failure, every call that was begun returns
\* and every thread gets all its calls served.
C20_EveryCallReturns ==
  /\ [](\A t \in Threads : fileLock = t => (dateLock # t /\ pc[t] \in {"writeln", "newline"}))
  /\ \A t \in Threads : (pc[t] # "idle") ~> (pc[t] = "idle")
  /\ <>AllDone

\* C20's case: a thread holds the current_date mutex and waits, inside
\* rotate_daily_file, for the file mutex that another thread holds.
C20_Witness ==
  \E t \in Threads : \E u \in Threads :
    /\ t # u
    /\ pc[t] = "swap"
    /\ dateLock = t
    /\ fileLock = u

\* C21: whenever a write of the daily sink is about to run the size rotation,
\* the path it hands over (file_path) is the path of the stored current date
\* and names the file the sink has open, also after daily date switches.
C21_SizePathIsOpenFile ==
  \A t \in Threads :
    pc[t] = "size" =>
      /\ file_path = DatePath(current_date)
      /\ dir[file_path] = file

====
